---- MODULE Spec2Model ----
(***************************************************************************)
(* KokkosKernels_SimpleUtils.hpp: the scan, reduction and comparison       *)
(* functors and the kk_* drivers that hand them to Kokkos::parallel_scan   *)
(* and Kokkos::parallel_reduce.                                            *)
(*                                                                         *)
(* A view is a sequence over the view's value type.  The templates are     *)
(* instantiated at two's-complement integer types (vt: signed or unsigned, *)
(* of a given width).  Every store into a value-type object narrows modulo *)
(* 2^bits (ToVal); every store into a size_t narrows modulo 2^SizeTBits    *)
(* (ToSizeT).  C++ indices are zero-based, sequence indices one-based:     *)
(* array(ii) is arr[ii + 1].                                               *)
(*                                                                         *)
(* The engine splits the index range [0, N) into contiguous partitions,    *)
(* one per worker (cuts); a partition may be empty.  Workers interleave    *)
(* freely, one functor invocation per step.                                *)
(***************************************************************************)
EXTENDS Integers, Sequences, FiniteSets

VARIABLES op, vt, view1, view2, orig, eps, cuts, wpc, wi, wtot, wacc,
          racc, dev, result, ret, pc, steps, fenced

vars == <<op, vt, view1, view2, orig, eps, cuts, wpc, wi, wtot, wacc,
          racc, dev, result, ret, pc, steps, fenced>>

\* ------------------------------------------------------------- bounds
MaxLen == 3
MaxPairLen == 2
MaxWorkers == 2
MaxEps == 2

\* ------------------------------------------------------ integer types
\* A value type: a two's-complement integer type, signed or unsigned, of
\* the given width.  The scans are instantiated at a signed type as wide as
\* size_t (Int3), at a narrower signed type (Int2) and at two unsigned types
\* (UInt2, UInt1); the reductions and the comparison at Int2 and UInt2.
Int2 == [sg |-> TRUE, bits |-> 2]
Int3 == [sg |-> TRUE, bits |-> 3]
UInt1 == [sg |-> FALSE, bits |-> 1]
UInt2 == [sg |-> FALSE, bits |-> 2]

SizeTBits == 3

RECURSIVE Pow2(_)
Pow2(n) == IF n = 0 THEN 1 ELSE 2 * Pow2(n - 1)

ValMod(s) == Pow2(s.bits)
SizeMod == Pow2(SizeTBits)

MinVal(s) == IF s.sg THEN -(ValMod(s) \div 2) ELSE 0
MaxVal(s) == IF s.sg THEN (ValMod(s) \div 2) - 1 ELSE ValMod(s) - 1
Values(s) == MinVal(s)..MaxVal(s)

\* Conversion of an integer to the value type.
ToVal(s, x) ==
  LET m == x % ValMod(s)
  IN IF s.sg /\ m >= ValMod(s) \div 2 THEN m - ValMod(s) ELSE m

\* Conversion of an integer to size_t.
ToSizeT(x) == x % SizeMod

\* What a read outside a view yields, and what any arithmetic on it yields:
\* an indeterminate value, distinct from every value of a value type and of
\* size_t.
Indet == SizeMod

\* idx (update): the accumulator converted to the value type.
Idx(s, update) == IF update = Indet THEN Indet ELSE ToVal(s, update)

\* update += val on a size_t.
AddSizeT(update, val) ==
  IF update = Indet \/ val = Indet THEN Indet ELSE ToSizeT(update + val)

\* array(ii): the element, or an indeterminate value outside the view.
At(arr, ii) == IF ii < Len(arr) THEN arr[ii + 1] ELSE Indet

\* array(ii) = x: the store; outside the view it does not touch the view.
Store(arr, ii, x) == IF ii < Len(arr) THEN [arr EXCEPT ![ii + 1] = x] ELSE arr

Workers == 1..MaxWorkers

Arrays(s, n) == UNION {[1..k -> Values(s)] : k \in 0..n}

\* The contiguous partitions of [0, n): worker k owns [c[k], c[k+1]).
Partitions(n) ==
  {c \in [1..(MaxWorkers + 1) -> 0..n] :
     /\ c[1] = 0
     /\ c[MaxWorkers + 1] = n
     /\ \A k \in Workers : c[k] <= c[k + 1]}

\* --------------------------------------------------------- the functors

\* Mutant: the accumulator is advanced on the final pass only.
ExclusiveStep_AddOnFinal(s, arr, ii, update, final) ==
  LET val == At(arr, ii)
  IN [arr    |-> IF final THEN Store(arr, ii, Idx(s, update)) ELSE arr,
      update |-> IF final THEN AddSizeT(update, val) ELSE update]

\* ExclusiveParallelPrefixSum::operator()(ii, update, final)
ExclusiveStep(s, arr, ii, update, final) ==
  LET val == At(arr, ii)
  IN [arr    |-> IF final THEN Store(arr, ii, Idx(s, update)) ELSE arr,
      update |-> AddSizeT(update, val)]

\* InclusiveParallelPrefixSum::operator()(ii, update, final)
InclusiveStep(s, arr, ii, update, final) ==
  LET upd == AddSizeT(update, At(arr, ii))
  IN [arr    |-> IF final THEN Store(arr, ii, Idx(s, upd)) ELSE arr,
      update |-> upd]

ScanStep(o, s, arr, ii, update, final) ==
  IF o = "excl" THEN ExclusiveStep(s, arr, ii, update, final)
                ELSE InclusiveStep(s, arr, ii, update, final)

\* Mutant: the element is assigned to the accumulator, not added.
ReductionStep_Assign(s, arr, ii, update) == ToVal(s, arr[ii + 1])

\* ReductionFunctor::operator()(ii, update)
ReductionStep(s, arr, ii, update) == ToVal(s, update + arr[ii + 1])

\* Mutant: the difference is taken the other way round.
DiffReductionStep_Swapped(s, begins, ends, ii, update) ==
  ToVal(s, update + ToVal(s, begins[ii + 1] - ends[ii + 1]))

\* DiffReductionFunctor::operator()(ii, update)
DiffReductionStep(s, begins, ends, ii, update) ==
  ToVal(s, update + ToVal(s, ends[ii + 1] - begins[ii + 1]))

\* Kokkos::Details::ArithTraits<val_type>::abs, whose result is stored in a
\* mag_type object; for an integer val_type mag_type is val_type itself.
KAT_abs(s, x) == IF s.sg THEN ToVal(s, IF x >= 0 THEN x ELSE -x) ELSE x

\* IsIdenticalFunctor::operator()(i, is_equal)
IsIdenticalStep(s, v1, v2, e, i, is_equal) ==
  LET val_diff == KAT_abs(s, ToVal(s, v1[i + 1] - v2[i + 1]))
  IN IF val_diff > e THEN ToSizeT(is_equal + 1) ELSE is_equal

\* ------------------------------------------------- sequential execution
\* The functor applied to 0, 1, ..., n-1 in order by a single worker.

RECURSIVE SeqScan(_, _, _, _)
SeqScan(o, s, arr, n) ==
  IF n = 0 THEN [arr |-> arr, update |-> 0]
  ELSE LET p == SeqScan(o, s, arr, n - 1)
       IN ScanStep(o, s, p.arr, n - 1, p.update, TRUE)

RECURSIVE SeqReduce(_, _, _)
SeqReduce(s, arr, n) ==
  IF n = 0 THEN 0 ELSE ReductionStep(s, arr, n - 1, SeqReduce(s, arr, n - 1))

RECURSIVE SeqIdentical(_, _, _, _, _)
SeqIdentical(s, v1, v2, e, n) ==
  IF n = 0 THEN 0
  ELSE IsIdenticalStep(s, v1, v2, e, n - 1, SeqIdentical(s, v1, v2, e, n - 1))

\* kk_is_identical_view executed by a single worker.
IsIdenticalSeq(s, v1, v2, e) ==
  IF Len(v1) # Len(v2) THEN FALSE
  ELSE ~(SeqIdentical(s, v1, v2, e, Len(v1)) > 0)

\* ------------------------------------------------------- initial states
Idle == [k \in Workers |-> "idle"]
Zeros == [k \in Workers |-> 0]

InitCommon ==
  /\ orig = view1
  /\ cuts = <<>>
  /\ wpc = Idle
  /\ wi = Zeros
  /\ wtot = Zeros
  /\ wacc = Zeros
  /\ racc = 0
  /\ dev = "idle"
  /\ ret = FALSE
  /\ pc = "call"
  /\ steps = 0
  /\ fenced = FALSE

InitScan ==
  /\ op \in {"excl", "incl"}
  /\ vt \in {Int3, Int2, UInt2, UInt1}
  /\ view1 \in Arrays(vt, MaxLen)
  /\ view2 = <<>>
  /\ eps = 0
  /\ result = 0
  /\ InitCommon

\* ----------------------------------------------------- Kokkos::parallel_scan
\* size_t num_elements of kk_reduce_view, kk_reduce_diff_view and
\* kk_is_identical_view: the length of the view.
N == Len(view1)

\* typename view_t::value_type num_elements of the two prefix sums: the
\* caller's length, converted to the view's value type.
NumElements(s, arr) == ToVal(s, Len(arr))

\* RangePolicy(0, num_elements): the end of the range the engine runs, in the
\* engine's index type.  A num_elements that is not negative is the end in
\* every index type.  A negative one gives an empty range under a signed
\* index type, and under an unsigned one (size_t) the end it converts to.
ScanEnds(s, arr) ==
  IF NumElements(s, arr) >= 0 THEN {NumElements(s, arr)}
  ELSE {0, ToSizeT(NumElements(s, arr))}

PartEmpty(c, k) == c[k] = c[k + 1]

\* kk_exclusive_parallel_prefix_sum / kk_inclusive_parallel_prefix_sum: the
\* call of parallel_scan over RangePolicy(0, num_elements).
ScanLaunch ==
  /\ pc = "call"
  /\ op \in {"excl", "incl"}
  /\ \E e \in ScanEnds(vt, view1) : \E c \in Partitions(e) :
       /\ cuts' = c
       /\ wi' = [k \in Workers |-> c[k]]
       /\ wpc' = [k \in Workers |-> IF PartEmpty(c, k) THEN "ready" ELSE "pass1"]
  /\ wtot' = Zeros
  /\ pc' = "scan"
  /\ UNCHANGED <<op, vt, view1, view2, orig, eps, wacc, racc, dev, result,
                 ret,
                 steps, fenced>>

\* First pass of worker k: the functor with final = false, from a zero
\* accumulator, over the worker's own partition.
ScanPass1(k) ==
  /\ pc = "scan"
  /\ wpc[k] = "pass1"
  /\ LET r == ScanStep(op, vt, view1, wi[k], wtot[k], FALSE)
     IN /\ view1' = r.arr
        /\ wtot' = [wtot EXCEPT ![k] = r.update]
  /\ wi' = [wi EXCEPT ![k] = wi[k] + 1]
  /\ wpc' = [wpc EXCEPT ![k] = IF wi[k] + 1 = cuts[k + 1] THEN "ready" ELSE "pass1"]
  /\ steps' = steps + 1
  /\ UNCHANGED <<op, vt, view2, orig, eps, cuts, wacc, racc, dev, result,
                 ret,
                 pc, fenced>>

RECURSIVE SumTotals(_, _)
SumTotals(t, k) == IF k = 0 THEN 0 ELSE AddSizeT(SumTotals(t, k - 1), t[k])

\* Worker k's starting accumulator: the totals of the partitions before it,
\* combined with + in index order.
ScanOffset(t, k) == SumTotals(t, k - 1)

\* Worker k starts its final pass once every partition up to its own has a total.
ScanBegin2(k) ==
  /\ pc = "scan"
  /\ wpc[k] = "ready"
  /\ \A j \in 1..(k - 1) : wpc[j] \in {"ready", "pass2", "done"}
  /\ wacc' = [wacc EXCEPT ![k] = ScanOffset(wtot, k)]
  /\ wi' = [wi EXCEPT ![k] = cuts[k]]
  /\ wpc' = [wpc EXCEPT ![k] = IF PartEmpty(cuts, k) THEN "done" ELSE "pass2"]
  /\ UNCHANGED <<op, vt, view1, view2, orig, eps, cuts, wtot, racc, dev, result,
                 ret, pc, steps, fenced>>

\* Final pass of worker k: the functor with final = true.
ScanPass2(k) ==
  /\ pc = "scan"
  /\ wpc[k] = "pass2"
  /\ LET r == ScanStep(op, vt, view1, wi[k], wacc[k], TRUE)
     IN /\ view1' = r.arr
        /\ wacc' = [wacc EXCEPT ![k] = r.update]
  /\ wi' = [wi EXCEPT ![k] = wi[k] + 1]
  /\ wpc' = [wpc EXCEPT ![k] = IF wi[k] + 1 = cuts[k + 1] THEN "done" ELSE "pass2"]
  /\ steps' = steps + 1
  /\ UNCHANGED <<op, vt, view2, orig, eps, cuts, wtot, racc, dev, result, ret,
                 pc, fenced>>

\* array_sum(ii) with ii past the end of the view (the range is longer than
\* the view) is undefined behaviour.  One outcome is that the invocation
\* returns (ScanPass1, ScanPass2: the read is indeterminate, the store lands
\* outside the view); the other is that the access faults and the call
\* does not return.
ScanFault(k) ==
  /\ pc = "scan"
  /\ wpc[k] \in {"pass1", "pass2"}
  /\ wi[k] >= Len(view1)
  /\ pc' = "fault"
  /\ UNCHANGED <<op, vt, view1, view2, orig, eps, cuts, wpc, wi, wtot, wacc,
                 racc, dev, result, ret, steps, fenced>>

\* parallel_scan returns once every worker has finished its final pass.
ScanReturn ==
  /\ pc = "scan"
  /\ \A k \in Workers : wpc[k] = "done"
  /\ pc' = "done"
  /\ UNCHANGED <<op, vt, view1, view2, orig, eps, cuts, wpc, wi, wtot, wacc,
                 racc, dev, result, ret, steps, fenced>>

NextScan ==
  \/ ScanLaunch
  \/ \E k \in Workers : ScanPass1(k)
  \/ \E k \in Workers : ScanBegin2(k)
  \/ \E k \in Workers : ScanPass2(k)
  \/ \E k \in Workers : ScanFault(k)
  \/ ScanReturn

SpecScan == InitScan /\ [][NextScan]_vars

\* --------------------------------------------------- Kokkos::parallel_reduce
\* The functor the driver hands to parallel_reduce.
FoldStep(o, s, v1, v2, e, ii, update) ==
  CASE o = "reduce"      -> ReductionStep(s, v1, ii, update)
    [] o = "reduce_diff" -> DiffReductionStep(s, v1, v2, ii, update)
    [] o = "identical"   -> IsIdenticalStep(s, v1, v2, e, ii, update)

\* The engine's combine of two partial results (+ in the reduction's type:
\* the view's value type, or size_t for the mismatch counter).
Join(o, s, a, b) == IF o = "identical" THEN ToSizeT(a + b) ELSE ToVal(s, a + b)

\* The engine starts a reduction over [0, n): every worker folds its own
\* partition from a zero partial result.
StartReduce(n) ==
  /\ \E c \in Partitions(n) :
       /\ cuts' = c
       /\ wi' = [k \in Workers |-> c[k]]
       /\ wpc' = [k \in Workers |-> IF PartEmpty(c, k) THEN "folded" ELSE "fold"]
  /\ wtot' = Zeros
  /\ racc' = 0
  /\ dev' = "busy"

InitReduce ==
  /\ op \in {"reduce", "reduce_diff"}
  /\ vt \in {Int2, UInt2}
  /\ \/ /\ op = "reduce"
        /\ view1 \in Arrays(vt, MaxLen)
        /\ view2 = <<>>
     \/ /\ op = "reduce_diff"
        /\ view1 \in Arrays(vt, MaxPairLen)
        /\ view2 \in [1..Len(view1) -> Values(vt)]
  /\ eps = 0
  /\ result \in {0, 1}
  /\ InitCommon

\* kk_reduce_view / kk_reduce_diff_view: the call of parallel_reduce over
\* RangePolicy(0, num_elements).
ReduceLaunch ==
  /\ pc = "call"
  /\ op \in {"reduce", "reduce_diff"}
  /\ StartReduce(N)
  /\ pc' = "reduce"
  /\ UNCHANGED <<op, vt, view1, view2, orig, eps, wacc, result, ret, steps,
                 fenced>>

\* One functor invocation of worker k on its partial result.
ReduceFold(k) ==
  /\ dev = "busy"
  /\ wpc[k] = "fold"
  /\ wtot' = [wtot EXCEPT ![k] = FoldStep(op, vt, view1, view2, eps, wi[k], wtot[k])]
  /\ wi' = [wi EXCEPT ![k] = wi[k] + 1]
  /\ wpc' = [wpc EXCEPT ![k] = IF wi[k] + 1 = cuts[k + 1] THEN "folded" ELSE "fold"]
  /\ steps' = steps + 1
  /\ UNCHANGED <<op, vt, view1, view2, orig, eps, cuts, wacc, racc, dev,
                 result, ret, pc, fenced>>

\* The engine merges worker k's partial result; partial results are merged
\* in any order.
ReduceJoin(k) ==
  /\ dev = "busy"
  /\ wpc[k] = "folded"
  /\ racc' = Join(op, vt, racc, wtot[k])
  /\ wpc' = [wpc EXCEPT ![k] = "done"]
  /\ UNCHANGED <<op, vt, view1, view2, orig, eps, cuts, wi, wtot, wacc, dev,
                 result, ret, pc, steps, fenced>>

\* The reduction completes: the merged value is written to the caller's
\* output reference.  kk_reduce_view and kk_reduce_diff_view then return.
ReduceFinish ==
  /\ dev = "busy"
  /\ \A k \in Workers : wpc[k] = "done"
  /\ result' = racc
  /\ dev' = "complete"
  /\ pc' = IF op = "identical" THEN pc ELSE "done"
  /\ UNCHANGED <<op, vt, view1, view2, orig, eps, cuts, wpc, wi, wtot, wacc,
                 racc, ret, steps, fenced>>

NextReduce ==
  \/ ReduceLaunch
  \/ \E k \in Workers : ReduceFold(k)
  \/ \E k \in Workers : ReduceJoin(k)
  \/ ReduceFinish

SpecReduce == InitReduce /\ [][NextReduce]_vars

\* ---------------------------------------------------- kk_is_identical_view
InitIdentical ==
  /\ op = "identical"
  /\ vt \in {Int2, UInt2}
  /\ view1 \in Arrays(vt, MaxPairLen)
  /\ view2 \in Arrays(vt, MaxPairLen)
  /\ eps \in {e \in 0..MaxEps : e <= MaxVal(vt)}
  /\ result = 0
  /\ InitCommon

\* Mutant: only a longer first view is rejected.
DimsDiffer_OneSided(v1, v2) == Len(v1) > Len(v2)

\* view1.dimension_0() != view2.dimension_0()
DimsDiffer(v1, v2) == Len(v1) # Len(v2)

\* The early return on views of different lengths.
IdentReturnMismatch ==
  /\ pc = "call"
  /\ op = "identical"
  /\ DimsDiffer(view1, view2)
  /\ ret' = FALSE
  /\ pc' = "done"
  /\ UNCHANGED <<op, vt, view1, view2, orig, eps, cuts, wpc, wi, wtot, wacc,
                 racc, dev, result, steps, fenced>>

\* issame = 0 and the call of parallel_reduce; the device work runs
\* asynchronously to the caller, who goes on to the fence.
IdentIssue ==
  /\ pc = "call"
  /\ op = "identical"
  /\ ~DimsDiffer(view1, view2)
  /\ result' = 0
  /\ StartReduce(N)
  /\ pc' = "fence"
  /\ UNCHANGED <<op, vt, view1, view2, orig, eps, wacc, ret, steps, fenced>>

\* Mutant: the fence returns at once.
FenceReady_NoWait(d) == TRUE

\* MyExecSpace::fence() returns once no device work is pending.
FenceReady(d) == d = "complete"

IdentFence ==
  /\ pc = "fence"
  /\ FenceReady(dev)
  /\ fenced' = TRUE
  /\ pc' = "read"
  /\ UNCHANGED <<op, vt, view1, view2, orig, eps, cuts, wpc, wi, wtot, wacc,
                 racc, dev, result, ret, steps>>

\* if (issame > 0) return false; else return true;
IsSameResult(issame) == IF issame > 0 THEN FALSE ELSE TRUE

IdentRead ==
  /\ pc = "read"
  /\ ret' = IsSameResult(result)
  /\ pc' = "done"
  /\ UNCHANGED <<op, vt, view1, view2, orig, eps, cuts, wpc, wi, wtot, wacc,
                 racc, dev, result, steps, fenced>>

NextIdentical ==
  \/ IdentReturnMismatch
  \/ IdentIssue
  \/ \E k \in Workers : ReduceFold(k)
  \/ \E k \in Workers : ReduceJoin(k)
  \/ ReduceFinish
  \/ IdentFence
  \/ IdentRead

SpecIdentical == InitIdentical /\ [][NextIdentical]_vars

\* ================================================================ claims

\* The sum of arr[1..n] over the integers.
RECURSIVE SumTo(_, _)
SumTo(arr, n) == IF n = 0 THEN 0 ELSE SumTo(arr, n - 1) + arr[n]

LastWorker == MaxWorkers

\* Every worker owns at least one index.
AllWorkersBusy == cuts # <<>> /\ \A k \in Workers : ~PartEmpty(cuts, k)

\* C1: when kk_exclusive_parallel_prefix_sum(N, A) with N the length of A has
\* returned, the array has its
\* original length, its first entry is 0, every later entry is its
\* predecessor plus the original predecessor, and so entry i is the sum of
\* the original entries before i (in the value type's arithmetic).
C1_ExclusivePrefixSum ==
  (op = "excl" /\ pc = "done") =>
    /\ Len(view1) = Len(orig)
    /\ (N > 0 => view1[1] = 0)
    /\ \A i \in 2..N : view1[i] = ToVal(vt, view1[i - 1] + orig[i - 1])
    /\ \A i \in 1..N : view1[i] = ToVal(vt, SumTo(orig, i - 1))

\* C2: when kk_inclusive_parallel_prefix_sum has returned, entry i is the sum
\* of the original entries up to and including i, which is the entry the
\* exclusive scan of the original array has at i plus the original entry i.
C2_InclusivePrefixSum ==
  (op = "incl" /\ pc = "done") =>
    /\ Len(view1) = Len(orig)
    /\ \A i \in 1..N : view1[i] = ToVal(vt, SumTo(orig, i))
    /\ \A i \in 1..N :
         view1[i] = ToVal(vt, SeqScan("excl", vt, orig, N).arr[i] + orig[i])

\* C3: for every partition of the index range among the workers and every
\* interleaving of their steps, the array a scan leaves when it returns is
\* the array a single sequential left-to-right final pass over that range
\* (cuts[MaxWorkers + 1] is its end) leaves.
C3_ScanAsIfSequential ==
  (op \in {"excl", "incl"} /\ pc = "done") =>
    view1 = SeqScan(op, vt, orig, cuts[MaxWorkers + 1]).arr

\* A signed scan whose range runs past the end of the view and which
\* returns: every worker owns indices, the last one starts inside the view
\* with a starting accumulator that is not zero.
C3_Witness ==
  /\ op \in {"excl", "incl"}
  /\ pc = "done"
  /\ vt.sg
  /\ AllWorkersBusy
  /\ cuts[MaxWorkers] < Len(orig)
  /\ cuts[MaxWorkers + 1] > Len(orig)
  /\ ScanOffset(wtot, MaxWorkers) # 0
  /\ view1 # orig

\* C7: the running accumulator of a scan is a value of the array's value
\* type, and after the last index it equals the sum reduction of the
\* original array as kk_reduce_view produces it (stated for the arrays
\* whose length num_elements can hold, so that the whole array is scanned).
C7_AccumulatorIsReduction ==
  (op \in {"excl", "incl"} /\ pc = "done" /\ NumElements(vt, orig) = Len(orig)) =>
    /\ wacc[LastWorker] \in Values(vt)
    /\ wacc[LastWorker] = SeqReduce(vt, orig, N)

\* C5: when kk_reduce_view has returned, the output scalar is the sum of the
\* array (in the value type's arithmetic), whatever the partition and the
\* order of the merges, and the array is unchanged.
C5_ReduceView ==
  (op = "reduce" /\ pc = "done") =>
    /\ result = ToVal(vt, SumTo(orig, Len(orig)))
    /\ view1 = orig

C5_Witness ==
  /\ op = "reduce"
  /\ pc = "done"
  /\ AllWorkersBusy
  /\ wtot[LastWorker] # 0
  /\ result # 0

\* C6: when kk_reduce_diff_view has returned, the output scalar is the
\* reduction of ends minus the reduction of begins.
C6_DiffIsDifferenceOfReductions ==
  (op = "reduce_diff" /\ pc = "done") =>
    result = ToVal(vt, SeqReduce(vt, view2, N) - SeqReduce(vt, view1, N))

C6_Witness ==
  /\ op = "reduce_diff"
  /\ pc = "done"
  /\ AllWorkersBusy
  /\ result # 0
  /\ SeqReduce(vt, view1, N) # 0

\* magnitude(view1[i] - view2[i]): the magnitude function applied to the
\* difference of the two elements (i one-based).
Magnitude(i) == KAT_abs(vt, ToVal(vt, view1[i] - view2[i]))

\* C4: kk_is_identical_view returns true iff the views have equal length and
\* every magnitude(view1[i] - view2[i]) is at most eps; with eps = 0 it
\* returns true iff the views are exactly equal.
C4_IdenticalIffWithinEps ==
  (op = "identical" /\ pc = "done") =>
    /\ ret <=> (Len(view1) = Len(view2) /\ \A i \in 1..N : Magnitude(i) <= eps)
    /\ (eps = 0 => (ret <=> view1 = view2))

\* C8: on views of different lengths kk_is_identical_view returns false, for
\* every eps, after no functor invocation and no fence.
C8_LengthMismatch ==
  (op = "identical" /\ Len(view1) # Len(view2)) =>
    /\ pc \in {"call", "done"}
    /\ steps = 0
    /\ dev = "idle"
    /\ ~fenced
    /\ (pc = "done" => ret = FALSE)

C8_Witness ==
  /\ op = "identical"
  /\ Len(view1) < Len(view2)
  /\ Len(view1) > 0
  /\ eps > 0
  /\ pc = "done"

\* C9: when the mismatch counter is read, the reduction has been issued and
\* has completed, the fence has returned, no functor invocation is pending,
\* and the counter is the number of indices whose magnitude exceeds eps.
C9_ReadAfterFence ==
  (op = "identical" /\ pc = "read") =>
    /\ fenced
    /\ dev = "complete"
    /\ \A k \in Workers : wpc[k] = "done"
    /\ steps = N
    /\ result = Cardinality({i \in 1..N : Magnitude(i) > eps})

C9_Witness ==
  /\ op = "identical"
  /\ pc = "read"
  /\ AllWorkersBusy
  /\ result > 0
  /\ result < N

\* C10: kk_is_identical_view gives the same answer with its two views
\* exchanged.
C10_IdenticalSymmetric ==
  (op = "identical" /\ pc = "done") =>
    ret = IsIdenticalSeq(vt, view2, view1, eps)

====
